---- MODULE Spec2Model ----
(***************************************************************************)
(* PicoHub backend: the admission-control rate limiter                     *)
(* (internal/middleware, rateLimiter) and the upload pipeline              *)
(* (StorageService.SaveFile / validatePackage, Scanner, SkillHandler.Create*)
(* and SkillRepository.Create).                                            *)
(***************************************************************************)
EXTENDS Integers, Sequences, FiniteSets, TLC

(***************************************************************************)
(* Bounds of the model.                                                    *)
(***************************************************************************)
\* RateLimit(limit, window): the configured pair, scaled down.
limit == 2
window == 2
\* The clock runs from 0 to MaxTime.
MaxTime == 4
\* Upload requests in flight in the concurrent pipeline specification.
NumReqs == 2
\* StorageService.maxFileSize, in abstract blocks.
maxFileSize == 2
\* Entries of a composed archive.
MaxEntries == 2
\* Calls of StorageService.Delete by a caller that looks at the result.
MaxDeletes == 2
\* Concurrent registration requests, and concurrent review-create requests.
NumRegs == 2
NumRevs == 2

Limiters == {"login", "register"}
Addrs == {"10.0.0.1", "10.0.0.2"}
\* allow() calls: limit * 2 of them, the concurrency scenario of the limiter.
Calls == 1..(2 * limit)
Reqs == 1..NumReqs
Regs == 1..NumRegs
Revs == 1..NumRevs

VARIABLES
    now,        \* the wall clock, time.Now()
    visitors,   \* rateLimiter.visitors, per limiter: key -> visitor
    mu,         \* rateLimiter.mu, per limiter: 0 free, c > 0 call c, -1 the sweep
    call,       \* each allow() call: its position and locals
    log,        \* the allow() results in the order the calls took effect
    sweeper,    \* the cleanup goroutine of each limiter
    files,      \* the upload directory: path -> content
    skills,     \* the skills table, in id order
    req,        \* each upload request: its position and locals
    nextTmp,    \* names os.CreateTemp has handed out
    nextUuid,   \* names uuid.New() has handed out
    deletes,    \* what StorageService.Delete returned to callers that look at it
    users,      \* the users table, in id order
    reg,        \* each registration request: its position and locals
    reviews,    \* the reviews table, in id order
    rev         \* each review-create request: its position and locals

rlVars == <<now, visitors, mu, call, log, sweeper>>
upVars == <<files, skills, req, nextTmp, nextUuid, deletes>>
acctVars == <<users, reg, reviews, rev>>
vars == <<now, visitors, mu, call, log, sweeper, files, skills, req, nextTmp, nextUuid,
          deletes, users, reg, reviews, rev>>

(***************************************************************************)
(* Rate limiter (middleware).                                              *)
(***************************************************************************)

\* visitor{count, resetAt}
Visitor(c, r) == [count |-> c, resetAt |-> r]

\* time.Now().After(t)
AfterInclusive(t) == now >= t
After(t) == now > t

\* A map with key k set to v / with key k deleted.
MapPut(m, k, v) == [x \in (DOMAIN m) \cup {k} |-> IF x = k THEN v ELSE m[x]]
MapDel(m, k) == [x \in (DOMAIN m) \ {k} |-> m[x]]

\* RateLimit's key: RemoteAddr, overridden by a non-empty X-Forwarded-For.
RateLimitKeyRemoteOnly(remote, fwd) == remote
RateLimitKey(remote, fwd) == IF fwd # "" THEN fwd ELSE remote

\* The routes of main.go that the model follows, and the limiter instance
\* the RateLimit middleware of each route owns ("none": the route has none).
Endpoints == {"login", "register", "upload"}
RouteLimiterShared(e) == IF e \in {"login", "register"} THEN "login" ELSE "none"
RouteLimiter(e) == IF e \in {"login", "register"} THEN e ELSE "none"

IdleCall == [pc |-> "idle", ep |-> "login", lim |-> "login", remote |-> "", fwd |-> "",
             key |-> "", fresh |-> FALSE, res |-> FALSE, t |-> 0]

\* rl.mu.Lock(): blocks until the mutex is free.
MutexFreeNoLock(l) == TRUE
MutexFree(l) == mu[l] = 0

\* The branch condition of allow: no visitor, or its window has passed.
NeedsResetMissingOnly(l, k) == k \notin DOMAIN visitors[l]
NeedsReset(l, k) == k \notin DOMAIN visitors[l] \/ After(visitors[l][k].resetAt)

\* return v.count <= rl.limit
WithinLimitOffByOne(count) == count < limit
WithinLimitPlusOne(count) == count <= limit + 1
WithinLimit(count) == count <= limit

\* A request enters the middleware and its allow() call takes the mutex.
\* Goroutines blocked in Lock() do not touch the limiter: which request wins
\* the mutex next, and with which key, is the choice made here.  Calls are
\* interchangeable, so they are numbered in the order they take the mutex.
AllowLock(c, l, remote, fwd) ==
    /\ call[c].pc = "idle"
    /\ \A d \in Calls : d < c => call[d].pc # "idle"
    /\ MutexFree(l)
    /\ mu' = [mu EXCEPT ![l] = c]
    /\ call' = [call EXCEPT ![c] = [@ EXCEPT !.pc = "locked", !.lim = l,
                                       !.key = RateLimitKey(remote, fwd)]]
    /\ UNCHANGED <<now, visitors, log, sweeper>>
    /\ UNCHANGED <<upVars, acctVars>>

\* v, exists := rl.visitors[key]; if !exists || time.Now().After(v.resetAt)
AllowCheck(c) ==
    /\ call[c].pc = "locked"
    /\ call' = [call EXCEPT ![c].pc = "checked",
                            ![c].fresh = NeedsReset(call[c].lim, call[c].key),
                            ![c].t = now]
    /\ UNCHANGED <<now, visitors, mu, log, sweeper>>
    /\ UNCHANGED <<upVars, acctVars>>

\* v.count++
IncrementProlongs(v) == Visitor(v.count + 1, now + window)
Increment(v) == Visitor(v.count + 1, v.resetAt)

\* Either install a fresh visitor and return true, or v.count++ and compare.
AllowApply(c) ==
    LET l == call[c].lim
        k == call[c].key
        v == IF call[c].fresh
               THEN Visitor(1, now + window)
               ELSE Increment(IF k \in DOMAIN visitors[l] THEN visitors[l][k]
                                                           ELSE Visitor(0, now + window))
        r == IF call[c].fresh THEN TRUE ELSE WithinLimit(v.count)
    IN  /\ call[c].pc = "checked"
        /\ visitors' = [visitors EXCEPT ![l] = MapPut(visitors[l], k, v)]
        /\ call' = [call EXCEPT ![c].pc = "applied", ![c].res = r]
        /\ log' = Append(log, [ep |-> call[c].ep, lim |-> l, key |-> k, t |-> call[c].t,
                               t2 |-> IF call[c].fresh THEN now ELSE -1,
                               fresh |-> call[c].fresh,
                               win |-> v.resetAt, res |-> r])
        /\ UNCHANGED <<now, mu, sweeper>>
        /\ UNCHANGED <<upVars, acctVars>>

\* defer rl.mu.Unlock(), and the middleware answers 429 or calls next.
AllowUnlock(c) ==
    /\ call[c].pc = "applied"
    /\ mu' = [mu EXCEPT ![call[c].lim] = 0]
    /\ call' = [call EXCEPT ![c].pc = "done"]
    /\ UNCHANGED <<now, visitors, log, sweeper>>
    /\ UNCHANGED <<upVars, acctVars>>

\* The cleanup goroutine asleep until wake.  While it sweeps, todo holds the
\* keys the range loop has yet to visit; at and seen record when the sweep
\* took the mutex and the map it found.
Sleeping(wake) == [pc |-> "sleep", wake |-> wake, todo |-> {}, at |-> 0, seen |-> <<>>]

\* cleanup: time.Sleep(rl.window) is over and the sweep takes the mutex.
SweepLock(l) ==
    /\ sweeper[l].pc = "sleep"
    /\ now >= sweeper[l].wake
    /\ MutexFree(l)
    /\ mu' = [mu EXCEPT ![l] = -1]
    /\ sweeper' = [sweeper EXCEPT ![l].pc = "sweep", ![l].todo = DOMAIN visitors[l],
                                  ![l].at = now, ![l].seen = visitors[l]]
    /\ UNCHANGED <<now, visitors, call, log>>
    /\ UNCHANGED <<upVars, acctVars>>

\* if time.Now().After(v.resetAt)
SweepExpiredAlways(v) == TRUE
SweepExpiredNever(v) == FALSE
SweepExpired(v) == After(v.resetAt)

\* for key, v := range rl.visitors: one iteration, in any order.
SweepVisit(l, k) ==
    /\ sweeper[l].pc = "sweep"
    /\ k \in sweeper[l].todo
    /\ visitors' = [visitors EXCEPT ![l] =
                        IF k \in DOMAIN visitors[l] /\ SweepExpired(visitors[l][k])
                        THEN MapDel(visitors[l], k) ELSE visitors[l]]
    /\ sweeper' = [sweeper EXCEPT ![l].todo = sweeper[l].todo \ {k}]
    /\ UNCHANGED <<now, mu, call, log>>
    /\ UNCHANGED <<upVars, acctVars>>

\* rl.mu.Unlock(), and the loop sleeps again.
SweepUnlock(l) ==
    /\ sweeper[l].pc = "sweep"
    /\ sweeper[l].todo = {}
    /\ mu' = [mu EXCEPT ![l] = 0]
    /\ sweeper' = [sweeper EXCEPT ![l].pc = "sleep", ![l].wake = now + window,
                                  ![l].at = 0, ![l].seen = <<>>]
    /\ UNCHANGED <<now, visitors, call, log>>
    /\ UNCHANGED <<upVars, acctVars>>

\* Time passes.
Tick ==
    /\ now < MaxTime
    /\ now' = now + 1
    /\ UNCHANGED <<visitors, mu, call, log, sweeper>>
    /\ UNCHANGED <<upVars, acctVars>>

InitRL ==
    /\ now = 0
    /\ visitors = [l \in Limiters |-> <<>>]
    /\ mu = [l \in Limiters |-> 0]
    /\ call = [c \in Calls |-> IdleCall]
    /\ log = <<>>
    \* newRateLimiter: go rl.cleanup(), which first sleeps for one window
    /\ sweeper = [l \in Limiters |-> Sleeping(window)]

InitUpIdle ==
    /\ files = <<>>
    /\ skills = <<>>
    /\ req = <<>>
    /\ nextTmp = 0
    /\ nextUuid = 0
    /\ deletes = <<>>
    /\ users = <<>>
    /\ reg = <<>>
    /\ reviews = <<>>
    /\ rev = <<>>

\* One limiter (the login endpoint's) under concurrent requests and its sweep.
NextRL ==
    \/ \E c \in Calls, remote \in Addrs, fwd \in {""} \cup Addrs :
            AllowLock(c, "login", remote, fwd)
    \/ \E c \in Calls : AllowCheck(c)
    \/ \E c \in Calls : AllowApply(c)
    \/ \E c \in Calls : AllowUnlock(c)
    \/ SweepLock("login")
    \/ \E k \in Addrs : SweepVisit("login", k)
    \/ SweepUnlock("login")
    \/ Tick

InitLimiter == InitRL /\ InitUpIdle

SpecRL == InitLimiter /\ [][NextRL]_vars

\* The same under fair scheduling: time passes, a goroutine that can take its
\* next step takes it, and the cleanup goroutine gets the mutex it waits for
\* (sync.Mutex hands the lock to a waiter that has been starved).
SpecRLFair ==
    /\ InitLimiter
    /\ [][NextRL]_vars
    /\ WF_vars(Tick)
    /\ WF_vars(\E c \in Calls : AllowCheck(c))
    /\ WF_vars(\E c \in Calls : AllowApply(c))
    /\ WF_vars(\E c \in Calls : AllowUnlock(c))
    /\ SF_vars(SweepLock("login"))
    /\ WF_vars(\E k \in Addrs : SweepVisit("login", k))
    /\ WF_vars(SweepUnlock("login"))

(***************************************************************************)
(* Uploaded archives.  An entry name is a sequence of characters, where    *)
(* "M" stands for the text manifest.json and "a" for any other text        *)
(* without a dot or a slash.                                               *)
(***************************************************************************)

ManifestJson == <<"M">>

\* strings.Contains(f.Name, "..")
HasDotDotPrefixOnly(name) == Len(name) >= 2 /\ name[1] = "." /\ name[2] = "."
HasDotDot(name) == \E i \in 1..(Len(name) - 1) : name[i] = "." /\ name[i + 1] = "."

\* strings.TrimSuffix(name, "/")
TrimSuffix(name) ==
    IF Len(name) > 0 /\ name[Len(name)] = "/" THEN SubSeq(name, 1, Len(name) - 1) ELSE name

\* strings.Split(name, "/"): the segments between the slashes, empty ones kept.
RECURSIVE Split(_)
Split(name) ==
    IF \A i \in 1..Len(name) : name[i] # "/"
    THEN <<name>>
    ELSE LET i == CHOOSE j \in 1..Len(name) :
                      name[j] = "/" /\ \A h \in 1..(j - 1) : name[h] # "/"
         IN  <<SubSeq(name, 1, i - 1)>> \o Split(SubSeq(name, i + 1, Len(name)))

\* len(strings.Split(strings.TrimSuffix(f.Name, "/"), "/"))
Depth(name) == Len(Split(TrimSuffix(name)))

\* filepath.Base: trailing slashes dropped, then the last element; "." for
\* the empty name and "/" for a name of slashes only.
RECURSIVE StripSlashes(_)
StripSlashes(name) ==
    IF Len(name) > 0 /\ name[Len(name)] = "/"
    THEN StripSlashes(SubSeq(name, 1, Len(name) - 1)) ELSE name
Base(name) ==
    IF name = <<>> THEN <<".">>
    ELSE LET t == StripSlashes(name)
         IN  IF t = <<>> THEN <<"/">> ELSE Split(t)[Len(Split(t))]

\* base == "manifest.json" && depth <= 2
IsManifestEntryAnyDepth(name) == Base(name) = ManifestJson
IsManifestEntry(name) == Base(name) = ManifestJson /\ Depth(name) <= 2

\* f.FileInfo().Mode()&os.ModeSymlink != 0
IsSymlinkNever(f) == FALSE
IsSymlink(f) == f.symlink

\* The content of an entry: opaque data, bytes that are no JSON document, an
\* entry whose Open fails, or a JSON document with some of the manifest's
\* fields (name "Demo", version "1.0.0", the given slug).
Data == [kind |-> "data", fields |-> {}, slug |-> ""]
Garbage == [kind |-> "garbage", fields |-> {}, slug |-> ""]
Unreadable == [kind |-> "unreadable", fields |-> {}, slug |-> ""]
Json(fields, slug) == [kind |-> "json", fields |-> fields, slug |-> slug]

Entry(name, symlink, content) == [name |-> name, symlink |-> symlink, content |-> content]

\* SkillManifest, as json.Decode fills it: a field the document lacks is "".
EmptyManifest == [Name |-> "", Slug |-> "", Version |-> ""]
DecodeManifest(c) ==
    [Name |-> IF "name" \in c.fields THEN "Demo" ELSE "",
     Slug |-> IF "slug" \in c.fields THEN c.slug ELSE "",
     Version |-> IF "version" \in c.fields THEN "1.0.0" ELSE ""]

\* manifest.Name == "" || manifest.Slug == ""
MissingRequiredNameOnly(m) == m.Name = ""
MissingRequired(m) == m.Name = "" \/ m.Slug = ""

\* The loop of validatePackage over r.File from entry i on; mf is the index of
\* manifestFile (0: nil).
RECURSIVE ScanEntriesFirstWins(_, _, _)
RECURSIVE ScanEntries(_, _, _)
ScanEntriesFirstWins(entries, i, mf) ==
    IF i > Len(entries) THEN [err |-> "", mf |-> mf]
    ELSE IF IsSymlink(entries[i]) THEN [err |-> "ErrSymlinkDetected", mf |-> 0]
    ELSE IF HasDotDot(entries[i].name) THEN [err |-> "ErrInvalidPackage", mf |-> 0]
    ELSE ScanEntriesFirstWins(entries, i + 1,
                              IF IsManifestEntry(entries[i].name) /\ mf = 0 THEN i ELSE mf)
ScanEntries(entries, i, mf) ==
    IF i > Len(entries) THEN [err |-> "", mf |-> mf]
    ELSE IF IsSymlink(entries[i]) THEN [err |-> "ErrSymlinkDetected", mf |-> 0]
    ELSE IF HasDotDot(entries[i].name) THEN [err |-> "ErrInvalidPackage", mf |-> 0]
    ELSE ScanEntries(entries, i + 1, IF IsManifestEntry(entries[i].name) THEN i ELSE mf)

\* validatePackage on a file of the upload directory: the error ("" for nil)
\* and the manifest.  A file that holds only part of the upload, or bytes
\* that are no zip archive, does not open.
validatePackage(file) ==
    IF ~file.body.zip \/ file.len # file.total
    THEN [err |-> "ErrInvalidPackage", manifest |-> EmptyManifest]
    ELSE LET s == ScanEntries(file.body.entries, 1, 0)
         IN  IF s.err # "" THEN [err |-> s.err, manifest |-> EmptyManifest]
             ELSE IF s.mf = 0 THEN [err |-> "ErrNoManifest", manifest |-> EmptyManifest]
             ELSE LET c == file.body.entries[s.mf].content
                      m == DecodeManifest(c)
                  IN  IF c.kind = "unreadable"
                      THEN [err |-> "open manifest", manifest |-> EmptyManifest]
                      ELSE IF c.kind # "json"
                      THEN [err |-> "parse manifest", manifest |-> EmptyManifest]
                      ELSE IF MissingRequired(m)
                      THEN [err |-> "manifest must contain name and slug",
                            manifest |-> EmptyManifest]
                      ELSE [err |-> "", manifest |-> m]

(***************************************************************************)
(* Upload pipeline: StorageService.SaveFile, Scanner, SkillHandler.Create. *)
(***************************************************************************)

NoPath == <<"", 0>>
\* os.CreateTemp(s.uploadDir, "upload-*.zip"): a name no file of the directory has.
TmpPath(n) == <<"upload-", n>>
\* filepath.Join(s.uploadDir, uuid.New().String() + ".zip")
FinalPathFixed(n) == <<"uuid-", 1>>
FinalPath(n) == <<"uuid-", n>>

\* The bytes of a file: the first len bytes of an upload of total bytes.
Bytes(body, len, total) == [body |-> body, len |-> len, total |-> total]
\* hex.EncodeToString(hasher.Sum(nil)): one digest per byte sequence.
Sha256(bytes) == [sha256 |-> bytes]

Resp(status, msg) == [status |-> status, error |-> msg]
NoResp == Resp(0, "")

\* err.Error() of the two sentinel errors the handler reports verbatim.
ErrorText(err) ==
    IF err = "ErrInvalidPackage" THEN "invalid skill package"
    ELSE IF err = "ErrNoManifest" THEN "manifest.json not found in package"
    ELSE err

\* SkillHandler.Create's answer to an error of SaveFile.
SaveFileResponse(err) ==
    IF err = "ErrFileTooLarge" THEN Resp(413, "file exceeds 10MB limit")
    ELSE IF err \in {"ErrNoManifest", "ErrInvalidPackage"} THEN Resp(400, ErrorText(err))
    ELSE Resp(500, "failed to save file")

\* SaveFile's deferred func: if err != nil { os.Remove(tmpPath) }
DeferredCleanupShadowedErr(fs, tmp, err) ==
    IF err # "" /\ err # "rename file" THEN MapDel(fs, tmp) ELSE fs
DeferredCleanup(fs, tmp, err) == IF err # "" THEN MapDel(fs, tmp) ELSE fs

\* StorageService.Delete: the empty path is a no-op, else os.Remove.
StorageDeleteKeeps(fs, path) == fs
StorageDelete(fs, path) == IF path = NoPath THEN fs ELSE MapDel(fs, path)
\* The error Delete returns: nil for the empty path, else what os.Remove
\* returns, which is an error for a path that names no file.
StorageDeleteErr(fs, path) ==
    IF path = NoPath THEN ""
    ELSE IF path \in DOMAIN fs THEN "" ELSE "remove: no such file or directory"

\* if err != nil || !scanResult.Clean
ScanRejectsIgnoringError(scan) == ~scan.clean
ScanRejects(scan) == scan.err \/ ~scan.clean

\* written > s.maxFileSize
TooLargeOffByOne(n) == n >= maxFileSize
TooLarge(n) == n > maxFileSize

Min(a, b) == IF a < b THEN a ELSE b

NewReq(u) ==
    [pc |-> "new", upload |-> u, tmpPath |-> NoPath, written |-> 0, err |-> "",
     validated |-> FALSE, manifest |-> EmptyManifest, finalPath |-> NoPath,
     filePath |-> NoPath, hash |-> Sha256(Bytes(u.body, 0, u.size)),
     scan |-> [done |-> FALSE, clean |-> FALSE, err |-> FALSE], resp |-> NoResp]

\* Create up to FormFile: the user id, the multipart form, the "file" part.
Receive(r, pre) ==
    /\ req[r].pc = "new"
    /\ req' = [req EXCEPT ![r] =
                IF pre = "unauthorized"
                THEN [@ EXCEPT !.pc = "done", !.resp = Resp(401, "unauthorized")]
                ELSE IF pre = "badform"
                THEN [@ EXCEPT !.pc = "done",
                               !.resp = Resp(400, "file too large or invalid form")]
                ELSE IF pre = "nofile"
                THEN [@ EXCEPT !.pc = "done", !.resp = Resp(400, "file is required")]
                ELSE [@ EXCEPT !.pc = "savefile"]]
    /\ UNCHANGED <<files, skills, nextTmp, nextUuid>>
    /\ UNCHANGED <<rlVars, deletes, acctVars>>

\* SaveFile: os.CreateTemp.  On its error SaveFile returns before the deferred
\* cleanup is registered, and there is no file.
CreateTemp(r, ok) ==
    /\ req[r].pc = "savefile"
    /\ IF ok
       THEN /\ nextTmp' = nextTmp + 1
            /\ files' = MapPut(files, TmpPath(nextTmp + 1),
                               Bytes(req[r].upload.body, 0, req[r].upload.size))
            /\ req' = [req EXCEPT ![r].pc = "copy", ![r].tmpPath = TmpPath(nextTmp + 1)]
       ELSE /\ req' = [req EXCEPT ![r].pc = "done", ![r].err = "create temp file",
                                  ![r].resp = SaveFileResponse("create temp file")]
            /\ UNCHANGED <<files, nextTmp>>
    /\ UNCHANGED <<skills, nextUuid>>
    /\ UNCHANGED <<rlVars, deletes, acctVars>>

\* io.Copy(io.MultiWriter(tmpFile, hasher), io.LimitReader(src, maxFileSize+1)),
\* tmpFile.Close() and the two checks of its outcome.  The copy either moves
\* every byte the limited reader yields, or fails after n of them.
Copy(r, n, ok) ==
    LET avail == Min(req[r].upload.size, maxFileSize + 1)
        e == IF ~ok THEN "save file"
             ELSE IF TooLarge(n) THEN "ErrFileTooLarge" ELSE ""
    IN  /\ req[r].pc = "copy"
        /\ n \in 0..avail
        /\ ok => n = avail
        /\ files' = MapPut(files, req[r].tmpPath,
                           Bytes(req[r].upload.body, n, req[r].upload.size))
        /\ req' = [req EXCEPT ![r].pc = IF e = "" THEN "validate" ELSE "return",
                              ![r].written = n,
                              ![r].hash = Sha256(Bytes(req[r].upload.body, n,
                                                       req[r].upload.size)),
                              ![r].err = e]
        /\ UNCHANGED <<skills, nextTmp, nextUuid>>
        /\ UNCHANGED <<rlVars, deletes, acctVars>>

\* manifest, err = s.validatePackage(tmpPath)
Validate(r) ==
    LET v == validatePackage(files[req[r].tmpPath])
    IN  /\ req[r].pc = "validate"
        /\ req' = [req EXCEPT ![r].pc = IF v.err = "" THEN "rename" ELSE "return",
                              ![r].validated = TRUE,
                              ![r].err = v.err,
                              ![r].manifest = v.manifest]
        /\ UNCHANGED <<files, skills, nextTmp, nextUuid>>
        /\ UNCHANGED <<rlVars, deletes, acctVars>>

\* os.Rename(old, new): the file is under its new name, with the bytes it had.
OsRenameTruncates(fs, old, new) ==
    MapPut(MapDel(fs, old), new, Bytes(fs[old].body, 0, fs[old].total))
OsRename(fs, old, new) == MapPut(MapDel(fs, old), new, fs[old])

\* os.Rename(tmpPath, finalPath) under a fresh uuid name.
Rename(r, ok) ==
    /\ req[r].pc = "rename"
    /\ nextUuid' = nextUuid + 1
    /\ IF ok
       THEN /\ files' = OsRename(files, req[r].tmpPath, FinalPath(nextUuid + 1))
            /\ req' = [req EXCEPT ![r].pc = "return",
                                  ![r].finalPath = FinalPath(nextUuid + 1)]
       ELSE /\ files' = files
            /\ req' = [req EXCEPT ![r].pc = "return", ![r].err = "rename file",
                                  ![r].finalPath = FinalPath(nextUuid + 1)]
    /\ UNCHANGED <<skills, nextTmp>>
    /\ UNCHANGED <<rlVars, deletes, acctVars>>

\* Create's test of SaveFile's result: if err != nil
SaveFileFailedSentinelOnly(err) ==
    err \in {"ErrFileTooLarge", "ErrNoManifest", "ErrInvalidPackage"}
SaveFileFailed(err) == err # ""

\* SaveFile returns: the deferred cleanup runs, and Create answers an error
\* or goes on to the scan.
SaveFileReturn(r) ==
    /\ req[r].pc = "return"
    /\ files' = DeferredCleanup(files, req[r].tmpPath, req[r].err)
    /\ req' = [req EXCEPT ![r] =
                IF SaveFileFailed(req[r].err)
                THEN [@ EXCEPT !.pc = "done", !.resp = SaveFileResponse(req[r].err)]
                ELSE [@ EXCEPT !.pc = "scan", !.filePath = req[r].finalPath]]
    /\ UNCHANGED <<skills, nextTmp, nextUuid>>
    /\ UNCHANGED <<rlVars, deletes, acctVars>>

\* scanResult, err := h.scanner.Scan(filePath): any implementation of Scanner.
Scan(r, clean, failed) ==
    /\ req[r].pc = "scan"
    /\ req' = [req EXCEPT ![r].scan = [done |-> TRUE, clean |-> clean, err |-> failed],
                          ![r].pc = IF ScanRejects([clean |-> clean, err |-> failed])
                                    THEN "flagged" ELSE "create"]
    /\ UNCHANGED <<files, skills, nextTmp, nextUuid>>
    /\ UNCHANGED <<rlVars, deletes, acctVars>>

\* h.storage.Delete(filePath) and the flagged-content answer.
ScanReject(r) ==
    /\ req[r].pc = "flagged"
    /\ files' = StorageDelete(files, req[r].filePath)
    /\ req' = [req EXCEPT ![r].pc = "done",
                          ![r].resp = Resp(400, "file flagged by security scan")]
    /\ UNCHANGED <<skills, nextTmp, nextUuid>>
    /\ UNCHANGED <<rlVars, deletes, acctVars>>

\* A row of skills, as Create builds it.
SkillRowWithoutPath(id, m, path, hash) ==
    [id |-> id, slug |-> m.Slug, name |-> m.Name, version |-> m.Version,
     file_path |-> NoPath, file_hash |-> hash, scan_status |-> "clean"]
SkillRow(id, m, path, hash) ==
    [id |-> id, slug |-> m.Slug, name |-> m.Name, version |-> m.Version,
     file_path |-> path, file_hash |-> hash, scan_status |-> "clean"]

\* skills.slug is UNIQUE.
SlugTakenNever(slug) == FALSE
SlugTaken(slug) == \E i \in 1..Len(skills) : skills[i].slug = slug

\* h.skillRepo.Create(skill): the INSERT fails on a taken slug or on a fault
\* of the database.
RepoCreate(r, fault) ==
    /\ req[r].pc = "create"
    /\ IF fault \/ SlugTaken(req[r].manifest.Slug)
       THEN /\ req' = [req EXCEPT ![r].pc = "conflict"]
            /\ UNCHANGED skills
       ELSE /\ skills' = Append(skills, SkillRow(Len(skills) + 1, req[r].manifest,
                                                 req[r].filePath, req[r].hash))
            /\ req' = [req EXCEPT ![r].pc = "done", ![r].resp = Resp(201, "")]
    /\ UNCHANGED <<files, nextTmp, nextUuid>>
    /\ UNCHANGED <<rlVars, deletes, acctVars>>

\* h.storage.Delete(filePath) and the 409 answer.
CreateReject(r) ==
    /\ req[r].pc = "conflict"
    /\ files' = StorageDelete(files, req[r].filePath)
    /\ req' = [req EXCEPT ![r].pc = "done",
                          ![r].resp = Resp(409, "skill with this slug already exists")]
    /\ UNCHANGED <<skills, nextTmp, nextUuid>>
    /\ UNCHANGED <<rlVars, deletes, acctVars>>

\* The client puts one more entry into the archive it is about to upload.
Compose(r, e) ==
    /\ req[r].pc = "new"
    /\ Len(req[r].upload.body.entries) < MaxEntries
    /\ req' = [req EXCEPT ![r].upload.body.entries = Append(@, e)]
    /\ UNCHANGED <<files, skills, nextTmp, nextUuid>>
    /\ UNCHANGED <<rlVars, deletes, acctVars>>

\* StorageService.Delete(filePath), called by a caller that keeps the result.
Delete(path) ==
    /\ Len(deletes) < MaxDeletes
    /\ files' = StorageDelete(files, path)
    /\ deletes' = Append(deletes, [path |-> path, err |-> StorageDeleteErr(files, path)])
    /\ UNCHANGED <<skills, req, nextTmp, nextUuid>>
    /\ UNCHANGED <<rlVars, acctVars>>

\* Entry names: manifest.json at depth 1, 2 and 3 and behind "..", and others.
ManifestNames == {<<"M">>, <<"a", "/", "M">>, <<"a", "/", "a", "/", "M">>,
                  <<".", ".", "/", "M">>}
OtherNames == {<<"a">>, <<"a", "/">>, <<"a", "/", ".", ".", "/", "a">>, <<"M", "/">>,
               <<"a", ".", ".", "a">>}
ManifestContents == {Json({"name", "slug", "version"}, "demo"),
                     Json({"name", "version"}, ""),
                     Json({"slug", "version"}, "demo"),
                     Json({"name", "slug"}, "demo"),
                     Garbage, Unreadable}
EntryPool ==
    {Entry(n, FALSE, c) : n \in ManifestNames, c \in ManifestContents}
        \cup {Entry(n, FALSE, Data) : n \in OtherNames}
        \cup {Entry(n, TRUE, Data) : n \in ManifestNames \cup OtherNames}

\* The uploads of the concurrent specification.
Zip(entries) == [zip |-> TRUE, entries |-> entries]
NotZip == [zip |-> FALSE, entries |-> <<>>]
GoodManifest(slug) == Entry(<<"M">>, FALSE, Json({"name", "slug", "version"}, slug))
BodyPool == {NotZip,
             Zip(<<GoodManifest("demo"), Entry(<<"a">>, FALSE, Data)>>),
             Zip(<<GoodManifest("line-messenger")>>),
             Zip(<<GoodManifest("demo"), Entry(<<"a">>, TRUE, Data)>>),
             Zip(<<Entry(<<"M">>, FALSE, Json({"name", "version"}, ""))>>)}
\* Every body at every size around the limit (an archive is never empty).
UploadsAllSizes ==
    {u \in [size : 0..(maxFileSize + 2), body : BodyPool] : u.body.zip => u.size >= 1}
\* The uploads of the concurrent specification: bodies at a size within the
\* limit, and one upload over the limit.
Uploads ==
    <<[size |-> 1, body |-> NotZip],
      [size |-> 1, body |-> Zip(<<GoodManifest("demo"), Entry(<<"a">>, FALSE, Data)>>)],
      [size |-> 1, body |-> Zip(<<GoodManifest("line-messenger")>>)],
      [size |-> 1, body |-> Zip(<<GoodManifest("demo"), Entry(<<"a">>, TRUE, Data)>>)],
      [size |-> 1, body |-> Zip(<<Entry(<<"M">>, FALSE, Json({"name", "version"}, ""))>>)],
      [size |-> maxFileSize + 1, body |-> Zip(<<GoodManifest("demo")>>)]>>

\* database.Seed: the skills the table starts with (their files are not created).
SeedSkills ==
    <<SkillRow(1, [Name |-> "LINE Messenger", Slug |-> "line-messenger", Version |-> "1.2.0"],
               <<"line-messenger", 0>>, Sha256(Bytes(Zip(<<>>), 1, 1)))>>

InitUp ==
    /\ files = <<>>
    /\ skills = SeedSkills
    /\ nextTmp = 0
    /\ nextUuid = 0
    /\ deletes = <<>>
    /\ users = <<>>
    /\ reg = <<>>
    /\ reviews = <<>>
    /\ rev = <<>>

PipelineStep(r) ==
    \/ \E pre \in {"ok", "unauthorized", "badform", "nofile"} : Receive(r, pre)
    \/ \E ok \in BOOLEAN : CreateTemp(r, ok)
    \/ \E n \in 0..(maxFileSize + 1), ok \in BOOLEAN : Copy(r, n, ok)
    \/ Validate(r)
    \/ \E ok \in BOOLEAN : Rename(r, ok)
    \/ SaveFileReturn(r)
    \/ \E clean \in BOOLEAN, failed \in BOOLEAN : Scan(r, clean, failed)
    \/ ScanReject(r)
    \/ \E fault \in BOOLEAN : RepoCreate(r, fault)
    \/ CreateReject(r)

\* Concurrent upload requests, each with an upload of the pool.  Requests are
\* interchangeable, so they are numbered in the order of their uploads in the pool.
Init ==
    /\ InitRL
    /\ InitUp
    /\ \E idx \in [Reqs -> 1..Len(Uploads)] :
            /\ \A r, q \in Reqs : r < q => idx[r] <= idx[q]
            /\ req = [r \in Reqs |-> NewReq(Uploads[idx[r]])]

Next == \E r \in Reqs : PipelineStep(r)

Spec == Init /\ [][Next]_vars

\* One upload request with an upload of any size around the limit.
InitS ==
    /\ InitRL
    /\ InitUp
    /\ \E u \in UploadsAllSizes :
            req = [r \in Reqs |-> NewReq(IF r = 1 THEN u ELSE [size |-> 1, body |-> NotZip])]

NextS == PipelineStep(1)

SpecS == InitS /\ [][NextS]_vars

\* One upload request whose archive the client composes entry by entry.
InitV ==
    /\ InitRL
    /\ InitUp
    /\ req = [r \in Reqs |-> NewReq([size |-> 1, body |-> Zip(<<>>)])]

NextV ==
    \/ \E e \in EntryPool : Compose(1, e)
    \/ PipelineStep(1)

SpecV == InitV /\ [][NextV]_vars

\* The request of an upload and the allow() call its route's middleware makes,
\* if the route has a limiter: the last call.
CallOf(r) == 2 * limit + 1 - r

\* A request enters the RateLimit middleware of its route, which calls allow.
Enter(c, remote, fwd) ==
    /\ RouteLimiter(call[c].ep) # "none"
    /\ AllowLock(c, RouteLimiter(call[c].ep), remote, fwd)

\* The router hands an upload request to SkillHandler.Create: at once on a
\* route without a limiter, else once allow has returned true; on false the
\* middleware answers 429.
Serve(r) ==
    LET c == CallOf(r)
    IN  /\ req[r].pc = "arrive"
        /\ RouteLimiter("upload") # "none" => call[c].pc = "done"
        /\ req' = [req EXCEPT ![r] =
                    IF RouteLimiter("upload") # "none" /\ ~call[c].res
                    THEN [@ EXCEPT !.pc = "done", !.resp = Resp(429, "rate limit exceeded")]
                    ELSE [@ EXCEPT !.pc = "new"]]
        /\ UNCHANGED <<files, skills, nextTmp, nextUuid, deletes>>
        /\ UNCHANGED <<rlVars, acctVars>>

\* Requests to the login and the register route, and one upload request.
InitR ==
    /\ now = 0
    /\ visitors = [l \in Limiters |-> <<>>]
    /\ mu = [l \in Limiters |-> 0]
    /\ \E ep \in [Calls -> Endpoints] :
            /\ \A c \in Calls : ep[c] = "upload" <=> c = CallOf(1)
            /\ call = [c \in Calls |-> [IdleCall EXCEPT !.ep = ep[c]]]
    /\ log = <<>>
    /\ sweeper = [l \in Limiters |-> Sleeping(window)]
    /\ InitUp
    /\ req = [r \in Reqs |->
                [NewReq([size |-> 1, body |-> Zip(<<GoodManifest("demo")>>)])
                    EXCEPT !.pc = "arrive"]]

NextR ==
    \/ \E c \in Calls, remote \in Addrs, fwd \in {""} \cup Addrs : Enter(c, remote, fwd)
    \/ \E c \in Calls : AllowCheck(c)
    \/ \E c \in Calls : AllowApply(c)
    \/ \E c \in Calls : AllowUnlock(c)
    \/ Serve(1)
    \/ PipelineStep(1)

SpecR == InitR /\ [][NextR]_vars

\* The limiters of the login and the register route side by side, under
\* concurrent requests to both routes within one window.
NextL ==
    \/ \E c \in Calls, remote \in Addrs, fwd \in {""} \cup Addrs : Enter(c, remote, fwd)
    \/ \E c \in Calls : AllowCheck(c)
    \/ \E c \in Calls : AllowApply(c)
    \/ \E c \in Calls : AllowUnlock(c)

SpecL == InitR /\ [][NextL]_vars

\* Requests to the login route, each with the RemoteAddr and the
\* X-Forwarded-For header it arrives with, within one window.
InitK ==
    /\ now = 0
    /\ visitors = [l \in Limiters |-> <<>>]
    /\ mu = [l \in Limiters |-> 0]
    /\ \E remote \in [Calls -> Addrs], fwd \in [Calls -> {""} \cup Addrs] :
            call = [c \in Calls |-> [IdleCall EXCEPT !.remote = remote[c], !.fwd = fwd[c]]]
    /\ log = <<>>
    /\ sweeper = [l \in Limiters |-> Sleeping(window)]
    /\ InitUpIdle

\* key := r.RemoteAddr; if fwd := r.Header.Get("X-Forwarded-For"); fwd != ""
\* { key = fwd }; rl.allow(key)
RateLimit(c) == AllowLock(c, "login", call[c].remote, call[c].fwd)

NextK ==
    \/ \E c \in Calls : RateLimit(c)
    \/ \E c \in Calls : AllowCheck(c)
    \/ \E c \in Calls : AllowApply(c)
    \/ \E c \in Calls : AllowUnlock(c)

SpecK == InitK /\ [][NextK]_vars

(***************************************************************************)
(* Registration: AuthHandler.Register, AuthService.Register.               *)
(***************************************************************************)

\* A row of the users table (username UNIQUE, email UNIQUE).
UserRow(id, username, email) == [id |-> id, username |-> username, email |-> email]
\* database.Seed: the users the table starts with.
SeedUsers ==
    <<UserRow(1, "admin", "admin@picohub.dev"), UserRow(2, "tanaka", "tanaka@example.com")>>

\* userRepo.FindByEmail / FindByUsername find a row (err == nil).
EmailFound(email) == \E i \in 1..Len(users) : users[i].email = email
UsernameFound(username) == \E i \in 1..Len(users) : users[i].username = username
\* The INSERT fails on one of the UNIQUE constraints of the table.
UniqueViolated(username, email) == UsernameFound(username) \/ EmailFound(email)

\* errors.Is(err, service.ErrUserExists)
IsUserExists(err) == err = "ErrUserExists"
\* The answer of AuthHandler.Register to an error of the service.
RegisterFailed(err) ==
    IF IsUserExists(err) THEN Resp(409, "user already exists")
    ELSE Resp(500, "registration failed")

\* A registration request: the fields of its body, the id of the user it
\* has created (0: none), the error of the service and the answer.
NewReg(username, email, passwordLen) ==
    [pc |-> "new", username |-> username, email |-> email, passwordLen |-> passwordLen,
     user |-> 0, err |-> "", resp |-> NoResp]

\* AuthHandler.Register up to the call of the service: the required fields
\* and the length of the password.
RegisterCheck(n) ==
    /\ reg[n].pc = "new"
    /\ reg' = [reg EXCEPT ![n] =
                IF reg[n].username = "" \/ reg[n].email = "" \/ reg[n].passwordLen = 0
                THEN [@ EXCEPT !.pc = "done",
                               !.resp = Resp(400, "username, email, and password are required")]
                ELSE IF reg[n].passwordLen < 8
                THEN [@ EXCEPT !.pc = "done",
                               !.resp = Resp(400, "password must be at least 8 characters")]
                ELSE [@ EXCEPT !.pc = "findEmail"]]
    /\ UNCHANGED <<users, reviews, rev>>
    /\ UNCHANGED <<rlVars, upVars>>

\* if _, err := s.userRepo.FindByEmail(req.Email); err == nil
RegisterFindByEmail(n) ==
    /\ reg[n].pc = "findEmail"
    /\ reg' = [reg EXCEPT ![n] =
                IF EmailFound(reg[n].email)
                THEN [@ EXCEPT !.pc = "done", !.err = "ErrUserExists",
                               !.resp = RegisterFailed("ErrUserExists")]
                ELSE [@ EXCEPT !.pc = "findUsername"]]
    /\ UNCHANGED <<users, reviews, rev>>
    /\ UNCHANGED <<rlVars, upVars>>

\* if _, err := s.userRepo.FindByUsername(req.Username); err == nil
RegisterFindByUsername(n) ==
    /\ reg[n].pc = "findUsername"
    /\ reg' = [reg EXCEPT ![n] =
                IF UsernameFound(reg[n].username)
                THEN [@ EXCEPT !.pc = "done", !.err = "ErrUserExists",
                               !.resp = RegisterFailed("ErrUserExists")]
                ELSE [@ EXCEPT !.pc = "create"]]
    /\ UNCHANGED <<users, reviews, rev>>
    /\ UNCHANGED <<rlVars, upVars>>

\* s.userRepo.Create(user): the INSERT, whose error Register returns as it
\* is; then the token, and the handler's answer.
RegisterCreate(n) ==
    /\ reg[n].pc = "create"
    /\ IF UniqueViolated(reg[n].username, reg[n].email)
       THEN /\ reg' = [reg EXCEPT ![n] =
                        [@ EXCEPT !.pc = "done", !.err = "UNIQUE constraint failed",
                                  !.resp = RegisterFailed("UNIQUE constraint failed")]]
            /\ UNCHANGED users
       ELSE /\ users' = Append(users, UserRow(Len(users) + 1, reg[n].username, reg[n].email))
            /\ reg' = [reg EXCEPT ![n] =
                        [@ EXCEPT !.pc = "done", !.user = Len(users) + 1,
                                  !.resp = Resp(201, "")]]
    /\ UNCHANGED <<reviews, rev>>
    /\ UNCHANGED <<rlVars, upVars>>

Usernames == {"", "tanaka", "sato"}
Emails == {"tanaka@example.com", "sato@example.com"}
PasswordLens == {7, 8}

\* Concurrent registration requests on the seeded table.
InitA ==
    /\ InitRL
    /\ files = <<>>
    /\ skills = SeedSkills
    /\ req = <<>>
    /\ nextTmp = 0
    /\ nextUuid = 0
    /\ deletes = <<>>
    /\ users = SeedUsers
    /\ reg \in [Regs -> {NewReg(u, e, p) : u \in Usernames, e \in Emails, p \in PasswordLens}]
    /\ reviews = <<>>
    /\ rev = <<>>

NextA ==
    \E n \in Regs :
        \/ RegisterCheck(n)
        \/ RegisterFindByEmail(n)
        \/ RegisterFindByUsername(n)
        \/ RegisterCreate(n)

SpecA == InitA /\ [][NextA]_vars

(***************************************************************************)
(* Reviews: ReviewHandler.Create.                                          *)
(***************************************************************************)

\* A row of the reviews table (UNIQUE(skill_id, user_id)).
ReviewRow(id, skill, user, rating) ==
    [id |-> id, skill_id |-> skill, user_id |-> user, rating |-> rating]
\* database.Seed: the reviews the table starts with.
SeedReviews == <<ReviewRow(1, 1, 1, 4)>>

\* skillRepo.FindBySlug: the id of the skill, 0 if there is none.
FindBySlug(slug) ==
    IF \E i \in 1..Len(skills) : skills[i].slug = slug
    THEN skills[CHOOSE i \in 1..Len(skills) : skills[i].slug = slug].id ELSE 0
\* The INSERT fails on UNIQUE(skill_id, user_id).
ReviewTakenNever(skill, user) == FALSE
ReviewTaken(skill, user) ==
    \E i \in 1..Len(reviews) : reviews[i].skill_id = skill /\ reviews[i].user_id = user

\* A review-create request: the user of its token (0: none), the slug of its
\* path, whether its body decodes and the rating in it; the skill found.
NewRev(user, slug, decodes, rating) ==
    [pc |-> "new", user |-> user, slug |-> slug, decodes |-> decodes, rating |-> rating,
     skill |-> 0, resp |-> NoResp]

\* ReviewHandler.Create up to the lookup of the skill.
ReviewFind(r) ==
    /\ rev[r].pc = "new"
    /\ rev' = [rev EXCEPT ![r] =
                IF rev[r].user = 0
                THEN [@ EXCEPT !.pc = "done", !.resp = Resp(401, "unauthorized")]
                ELSE IF FindBySlug(rev[r].slug) = 0
                THEN [@ EXCEPT !.pc = "done", !.resp = Resp(404, "skill not found")]
                ELSE [@ EXCEPT !.pc = "found", !.skill = FindBySlug(rev[r].slug)]]
    /\ UNCHANGED <<users, reg, reviews>>
    /\ UNCHANGED <<rlVars, upVars>>

\* The rest of ReviewHandler.Create: the body, the rating, and the INSERT,
\* any error of which is answered 409.
ReviewCreate(r) ==
    /\ rev[r].pc = "found"
    /\ IF ~rev[r].decodes
       THEN /\ rev' = [rev EXCEPT ![r] =
                        [@ EXCEPT !.pc = "done", !.resp = Resp(400, "invalid request body")]]
            /\ UNCHANGED reviews
       ELSE IF rev[r].rating < 1 \/ rev[r].rating > 5
       THEN /\ rev' = [rev EXCEPT ![r] =
                        [@ EXCEPT !.pc = "done",
                                  !.resp = Resp(400, "rating must be between 1 and 5")]]
            /\ UNCHANGED reviews
       ELSE IF ReviewTaken(rev[r].skill, rev[r].user)
       THEN /\ rev' = [rev EXCEPT ![r] =
                        [@ EXCEPT !.pc = "done",
                                  !.resp = Resp(409, "you have already reviewed this skill")]]
            /\ UNCHANGED reviews
       ELSE /\ reviews' = Append(reviews, ReviewRow(Len(reviews) + 1, rev[r].skill,
                                                    rev[r].user, rev[r].rating))
            /\ rev' = [rev EXCEPT ![r] = [@ EXCEPT !.pc = "done", !.resp = Resp(201, "")]]
    /\ UNCHANGED <<users, reg>>
    /\ UNCHANGED <<rlVars, upVars>>

ReviewBodies == {[decodes |-> FALSE, rating |-> 0], [decodes |-> TRUE, rating |-> 0],
                 [decodes |-> TRUE, rating |-> 3], [decodes |-> TRUE, rating |-> 5]}

\* Concurrent review-create requests on the seeded tables.
InitW ==
    /\ InitRL
    /\ files = <<>>
    /\ skills = SeedSkills
    /\ req = <<>>
    /\ nextTmp = 0
    /\ nextUuid = 0
    /\ deletes = <<>>
    /\ users = SeedUsers
    /\ reg = <<>>
    /\ reviews = SeedReviews
    /\ rev \in [Revs -> {NewRev(u, s, b.decodes, b.rating) :
                            u \in 0..2, s \in {"line-messenger", "nope"}, b \in ReviewBodies}]

NextW == \E r \in Revs : ReviewFind(r) \/ ReviewCreate(r)

SpecW == InitW /\ [][NextW]_vars

\* One upload request, and calls of StorageService.Delete on the empty path,
\* on the path of its stored file and on a path that names no file.
InitD ==
    /\ InitRL
    /\ InitUp
    /\ req = [r \in Reqs |-> NewReq([size |-> 1, body |-> Zip(<<GoodManifest("demo")>>)])]

NextD ==
    \/ PipelineStep(1)
    \/ \E path \in {NoPath, FinalPath(1), FinalPath(0)} : Delete(path)

SpecD == InitD /\ [][NextD]_vars

(***************************************************************************)
(* Claims about the rate limiter.                                          *)
(***************************************************************************)

\* The calls up to the i-th that were counted in the same window of the same key.
SameWindow(i) == {j \in 1..i : /\ log[j].lim = log[i].lim
                               /\ log[j].key = log[i].key
                               /\ log[j].win = log[i].win}
Ordinal(i) == Cardinality(SameWindow(i))

\* C1: among the allow(key) calls of one window, the installing call being the
\* first, exactly the first `limit` return true; the (limit+1)-th and every
\* later one return false.
C1_FirstNAdmitted ==
    \A i \in 1..Len(log) : log[i].res = (Ordinal(i) <= limit)

\* A window that has taken limit + 2 calls, the last of them denied.
C1_Witness ==
    \E i \in 1..Len(log) : Ordinal(i) = limit + 2 /\ ~log[i].res

AllDone == \A c \in Calls : call[c].pc = "done"
OneWindow == Len(log) > 0 /\ SameWindow(Len(log)) = 1..Len(log)
Admitted == {i \in 1..Len(log) : log[i].res}
Denied == {i \in 1..Len(log) : ~log[i].res}

\* C2: limit * 2 concurrent allow calls for one fresh key inside one window end
\* with exactly `limit` admitted and exactly `limit` denied (the results are
\* fixed once every call has taken effect, whether or not it has returned).
C2_ExactlyLimitAdmitted ==
    (Len(log) = 2 * limit /\ OneWindow)
        => (Cardinality(Admitted) = limit /\ Cardinality(Denied) = limit)

C2_Witness ==
    AllDone /\ Len(log) = 2 * limit /\ OneWindow /\ Cardinality(Denied) = limit

\* C3: an allow(key) call that finds no window for the key, or a window whose
\* resetAt has passed, returns true and installs a fresh window with count 1
\* and resetAt = now + window, whatever the old window had counted.
C3_ResetAdmits ==
    [][\A c \in Calls :
        (/\ call[c].pc = "checked"
         /\ call'[c].pc = "applied"
         /\ \/ call[c].key \notin DOMAIN visitors[call[c].lim]
            \/ call[c].t > visitors[call[c].lim][call[c].key].resetAt)
        => (/\ call'[c].res
            /\ visitors'[call[c].lim][call[c].key] = Visitor(1, now + window))]_vars

\* A key denied in its old window is admitted by the call that follows the
\* window's end.
C3_Witness ==
    \E i, j \in 1..Len(log) :
        /\ i < j
        /\ log[i].key = log[j].key
        /\ ~log[i].res
        /\ log[j].t > log[i].win
        /\ log[j].res
        /\ log[j].win = log[j].t + window

\* The admitted calls of key k whose time.Now() lies in from..to.
AdmittedIn(k, from, to) ==
    {i \in 1..Len(log) : log[i].key = k /\ log[i].res /\ from <= log[i].t /\ log[i].t <= to}
\* The admitted calls that were counted in the i-th call's window.
AdmittedInWindow(i) == {j \in 1..Len(log) : /\ log[j].lim = log[i].lim
                                              /\ log[j].key = log[i].key
                                              /\ log[j].win = log[i].win
                                              /\ log[j].res}

InAllow(l) == \E c \in Calls : call[c].lim = l /\ call[c].pc \in {"locked", "checked", "applied"}

\* C20: a sweep holds the limiter's mutex from start to end, no allow call of
\* the limiter runs meanwhile, and when it completes it has removed every
\* window whose resetAt had passed when it started, has left every window
\* that has not expired with its count and resetAt unchanged, and has added
\* none.
C20_SweepRemovesExpired ==
    [][\A l \in Limiters :
        sweeper[l].pc = "sweep"
          => /\ mu[l] = -1 /\ ~InAllow(l)
             /\ sweeper'[l].pc = "sleep"
                  => /\ \A k \in DOMAIN sweeper[l].seen :
                          /\ sweeper[l].seen[k].resetAt < sweeper[l].at
                                => k \notin DOMAIN visitors'[l]
                          /\ sweeper[l].seen[k].resetAt >= now
                                => /\ k \in DOMAIN visitors'[l]
                                   /\ visitors'[l][k] = sweeper[l].seen[k]
                     /\ DOMAIN visitors'[l] \subseteq DOMAIN sweeper[l].seen]_vars

\* A sweep at its end: it has removed an expired window and left the window
\* of another key, which ends at this very instant.
C20_Witness ==
    LET sw == sweeper["login"]
    IN  /\ sw.pc = "sweep" /\ sw.todo = {}
        /\ \E k \in DOMAIN sw.seen : k \notin DOMAIN visitors["login"]
        /\ \E k \in DOMAIN visitors["login"] : visitors["login"][k].resetAt = now

(***************************************************************************)
(* Claims about SaveFile and SkillHandler.Create.                          *)
(***************************************************************************)

\* Create answered before it called SaveFile.
EarlyReject(r) ==
    req[r].resp \in {Resp(401, "unauthorized"),
                     Resp(400, "file too large or invalid form"),
                     Resp(400, "file is required")}
\* SaveFile has returned to Create.
SaveFileDone(r) ==
    req[r].pc \in {"scan", "flagged", "create", "conflict", "done"} /\ ~EarlyReject(r)
Rejected(r) == req[r].pc = "done" /\ req[r].resp.status # 201
Accepted(r) == req[r].pc = "done" /\ req[r].resp.status = 201
\* No file and no row of the request is left.
NoTrace(r) ==
    /\ req[r].tmpPath \notin DOMAIN files
    /\ req[r].finalPath \notin DOMAIN files
    /\ \A i \in 1..Len(skills) :
            req[r].finalPath = NoPath \/ skills[i].file_path # req[r].finalPath

\* C4: whenever SaveFile has returned an error, whatever its cause, the temp
\* file of the call is gone and the call has left no permanent file.
C4_NoOrphanOnError ==
    \A r \in Reqs :
        (SaveFileDone(r) /\ req[r].err # "")
            => /\ req[r].tmpPath \notin DOMAIN files
               /\ req[r].finalPath \notin DOMAIN files
               /\ req[r].filePath = NoPath

\* One upload failed in the rename and another one in the copy.
C4_Witness ==
    \E r, q \in Reqs :
        /\ SaveFileDone(r) /\ req[r].err = "rename file"
        /\ SaveFileDone(q) /\ req[q].err = "save file"

\* C5: a request that Create has rejected, at whatever stage, has left neither
\* a file in the upload directory nor a row; once every request is answered,
\* the directory holds the files of the accepted uploads only and the table
\* one row more per accepted upload.
C5_RejectionLeavesNothing ==
    /\ \A r \in Reqs : Rejected(r) => NoTrace(r)
    /\ (\A r \in Reqs : req[r].pc = "done")
        => /\ DOMAIN files = {req[r].filePath : r \in {q \in Reqs : Accepted(q)}}
           /\ Len(skills) = Len(SeedSkills) + Cardinality({q \in Reqs : Accepted(q)})

\* One upload rejected for its slug and another one by the scanner.
C5_Witness ==
    \E r, q \in Reqs :
        /\ req[r].pc = "done" /\ req[r].resp.status = 409
        /\ req[q].pc = "done" /\ req[q].resp = Resp(400, "file flagged by security scan")

\* The scanner has answered, and not with a clean result.
ScanNotClean(r) == req[r].scan.done /\ (req[r].scan.err \/ ~req[r].scan.clean)

\* C6: after a scanner error or a result that is not clean, Create deletes the
\* stored file, answers with the flagged-content rejection and never calls
\* skillRepo.Create; every row an upload has created is of a file the scanner
\* returned clean for.
C6_FailClosed ==
    /\ \A r \in Reqs :
          ScanNotClean(r)
            => /\ req[r].pc \in {"flagged", "done"}
               /\ req[r].pc = "done"
                    => /\ req[r].resp = Resp(400, "file flagged by security scan")
                       /\ req[r].filePath \notin DOMAIN files
               /\ \A i \in 1..Len(skills) : skills[i].file_path # req[r].filePath
    /\ \A i \in (Len(SeedSkills) + 1)..Len(skills) :
          \E r \in Reqs : /\ skills[i].file_path = req[r].filePath
                          /\ req[r].scan.done /\ req[r].scan.clean /\ ~req[r].scan.err

\* A scanner error that came with Clean = true was rejected, beside an
\* accepted upload.
C6_Witness ==
    \E r, q \in Reqs :
        /\ req[r].pc = "done" /\ req[r].scan.done /\ req[r].scan.err /\ req[r].scan.clean
        /\ Accepted(q)

(***************************************************************************)
(* Claims about validatePackage.                                           *)
(***************************************************************************)

EntriesOf(r) == req[r].upload.body.entries
HasSymlinkEntry(es) == \E i \in 1..Len(es) : es[i].symlink
\* The name holds the characters "..".
ContainsDotDot(name) == \E i \in 1..(Len(name) - 1) : name[i] = "." /\ name[i + 1] = "."
\* The name has a parent-directory segment.
ParentSegment(name) == \E i \in 1..Len(Split(name)) : Split(name)[i] = <<".", ".">>
HasTraversalEntry(es) == \E i \in 1..Len(es) : ParentSegment(es[i].name)
\* The entry validation stops at: the first that is a symlink or holds "..".
Offending(es) == {i \in 1..Len(es) : es[i].symlink \/ ContainsDotDot(es[i].name)}
FirstOffending(es) == CHOOSE i \in Offending(es) : \A j \in Offending(es) : i <= j
\* The entry is named manifest.json at depth 1 or 2.
Qualifies(name) == Base(name) = <<"M">> /\ Depth(name) \in {1, 2}
NoQualifyingEntry(es) == \A i \in 1..Len(es) : ~Qualifies(es[i].name)
\* SaveFile has left nothing but, for the time of the call, its temp file.
NoPermanentFile(r) ==
    /\ req[r].finalPath = NoPath
    /\ req[r].filePath = NoPath
    /\ DOMAIN files \subseteq {req[r].tmpPath}

\* C7 as stated: every archive with a symlink entry gets SymlinkDetected.
C7_Original ==
    \A r \in Reqs :
        (req[r].validated /\ HasSymlinkEntry(EntriesOf(r)))
            => req[r].err = "ErrSymlinkDetected"

\* C7, amended: an archive with a symlink entry is rejected by validation and
\* SaveFile creates no permanent file for it; the error is SymlinkDetected,
\* unless an entry stored before the first symlink entry has a name that
\* holds "..", and then it is InvalidPackage.
C7_SymlinkRejected ==
    \A r \in Reqs :
        HasSymlinkEntry(EntriesOf(r))
            => /\ req[r].pc # "new" => NoPermanentFile(r)
               /\ req[r].validated
                    => req[r].err = IF EntriesOf(r)[FirstOffending(EntriesOf(r))].symlink
                                    THEN "ErrSymlinkDetected" ELSE "ErrInvalidPackage"

\* A well-formed manifest followed by a symlink entry: SymlinkDetected.
C7_Witness ==
    /\ req[1].pc = "done" /\ req[1].validated
    /\ Len(EntriesOf(1)) = 2
    /\ EntriesOf(1)[1] = GoodManifest("demo")
    /\ EntriesOf(1)[2].symlink
    /\ req[1].err = "ErrSymlinkDetected"

\* C8 as stated: every archive with a ".." segment in a name gets InvalidPackage.
C8_Original ==
    \A r \in Reqs :
        (req[r].validated /\ HasTraversalEntry(EntriesOf(r)))
            => req[r].err = "ErrInvalidPackage"

\* C8, amended: an archive with an entry whose name has a ".." segment is
\* rejected by validation: with InvalidPackage, unless a symlink entry is
\* stored at or before the first entry whose name holds "..", and then with
\* SymlinkDetected.
C8_TraversalRejected ==
    \A r \in Reqs :
        (req[r].validated /\ HasTraversalEntry(EntriesOf(r)))
            => req[r].err = IF EntriesOf(r)[FirstOffending(EntriesOf(r))].symlink
                            THEN "ErrSymlinkDetected" ELSE "ErrInvalidPackage"

\* A harmless entry followed by one with a ".." segment inside its name.
C8_Witness ==
    /\ req[1].validated
    /\ Len(EntriesOf(1)) = 2
    /\ EntriesOf(1)[1] = GoodManifest("demo")
    /\ EntriesOf(1)[2] = Entry(<<"a", "/", ".", ".", "/", "a">>, FALSE, Data)
    /\ req[1].err = "ErrInvalidPackage"

\* C9 as stated: every archive without a qualifying manifest entry gets NoManifest.
C9_Original ==
    \A r \in Reqs :
        (req[r].validated /\ NoQualifyingEntry(EntriesOf(r)))
            => req[r].err = "ErrNoManifest"

\* C9, amended: an archive in which no entry is named manifest.json at depth
\* <= 2 is rejected by validation: with NoManifest if none of its entries is a
\* symlink or has a name that holds "..", and else with SymlinkDetected or
\* InvalidPackage.
C9_NoManifest ==
    \A r \in Reqs :
        (req[r].validated /\ NoQualifyingEntry(EntriesOf(r)))
            => req[r].err = IF Offending(EntriesOf(r)) = {} THEN "ErrNoManifest"
                            ELSE IF EntriesOf(r)[FirstOffending(EntriesOf(r))].symlink
                            THEN "ErrSymlinkDetected" ELSE "ErrInvalidPackage"

\* A manifest.json at depth 3 only: NoManifest.
C9_Witness ==
    /\ req[1].validated
    /\ \E i \in 1..Len(EntriesOf(1)) :
            EntriesOf(1)[i].name = <<"a", "/", "a", "/", "M">> /\ ~EntriesOf(1)[i].symlink
    /\ req[1].err = "ErrNoManifest"

(***************************************************************************)
(* Claims about the size limit.                                            *)
(***************************************************************************)

\* C10 as stated: SaveFile returns FileTooLarge exactly when the input is
\* longer than the limit.
C10_Original ==
    \A r \in Reqs :
        SaveFileDone(r)
            => (req[r].err = "ErrFileTooLarge" <=> req[r].upload.size > maxFileSize)

\* C10, amended: SaveFile returns FileTooLarge only for an input longer than
\* the limit, and for every such input, whatever its content, unless creating
\* the temp file or the copy fails with an I/O error, which it then returns;
\* it never copies more than maxFileSize + 1 bytes, and after FileTooLarge no
\* file of the upload is left.
C10_TooLargeExact ==
    \A r \in Reqs :
        /\ req[r].written <= maxFileSize + 1
        /\ SaveFileDone(r)
            => /\ req[r].err = "ErrFileTooLarge"
                    => /\ req[r].upload.size > maxFileSize
                       /\ req[r].written = maxFileSize + 1
                       /\ NoTrace(r) /\ DOMAIN files = {}
               /\ req[r].upload.size > maxFileSize
                    => req[r].err \in {"ErrFileTooLarge", "create temp file", "save file"}
               /\ (req[r].upload.size > maxFileSize /\ req[r].tmpPath # NoPath
                        /\ req[r].err # "save file")
                    => req[r].err = "ErrFileTooLarge"

\* An input two bytes over the limit: maxFileSize + 1 bytes copied, FileTooLarge.
C10_Witness ==
    /\ req[1].pc = "done"
    /\ req[1].upload.size = maxFileSize + 2
    /\ req[1].written = maxFileSize + 1
    /\ req[1].err = "ErrFileTooLarge"
    /\ req[1].resp.status = 413

(***************************************************************************)
(* Claims about the digest and the delete operation.                       *)
(***************************************************************************)

\* SaveFile has returned to Create without an error.
SaveFileOk(r) == SaveFileDone(r) /\ req[r].err = ""

\* C11: for every SaveFile call that succeeded, the digest it returned is the
\* digest of exactly the bytes of the file at the path it returned, as long
\* as that file is there, and these are all the bytes of the upload; the row
\* of an accepted upload carries this path and this digest.
C11_DigestOfStoredBytes ==
    /\ \A r \in Reqs :
          (SaveFileOk(r) /\ req[r].filePath \in DOMAIN files)
            => /\ req[r].filePath = req[r].finalPath
               /\ req[r].hash = Sha256(files[req[r].filePath])
               /\ files[req[r].filePath]
                    = Bytes(req[r].upload.body, req[r].upload.size, req[r].upload.size)
    /\ \A i \in (Len(SeedSkills) + 1)..Len(skills) :
          /\ skills[i].file_path \in DOMAIN files
          /\ skills[i].file_hash = Sha256(files[skills[i].file_path])

\* An accepted upload, its file in the directory, while another upload is
\* being copied.
C11_Witness ==
    \E r, q \in Reqs :
        /\ Accepted(r) /\ req[r].filePath \in DOMAIN files
        /\ req[r].written = req[r].upload.size /\ req[r].written > 0
        /\ req[q].pc = "validate"

\* C12: Delete called twice on the same path, once on a path that names no
\* file, or on the empty path returns no error, and the directory is left
\* without that file.
C12_Original ==
    \A i \in 1..Len(deletes) :
        /\ deletes[i].err = ""
        /\ i = Len(deletes) => deletes[i].path \notin DOMAIN files

(***************************************************************************)
(* Claims about the routes and their limiters.                             *)
(***************************************************************************)

\* SaveFile has been invoked for the request.
SaveFileInvoked(r) ==
    req[r].pc \in {"copy", "validate", "rename", "return"} \/ SaveFileDone(r)
    \/ (req[r].pc = "done" /\ req[r].err # "")
\* A limiter has admitted the upload request.
AdmittedUpload(r) == call[CallOf(r)].ep = "upload" /\ call[CallOf(r)].res

\* C13: SaveFile is invoked only for an upload request that a rate limiter
\* has admitted.
C13_Original ==
    \A r \in Reqs : SaveFileInvoked(r) => AdmittedUpload(r)

\* The calls up to the i-th that came through the same route, with the same
\* key, and were counted in the same window.
SameRoute(i) == {j \in 1..i : /\ log[j].ep = log[i].ep
                              /\ log[j].key = log[i].key
                              /\ log[j].win = log[i].win}

\* C19: the outcome of an allow call depends only on the calls made through
\* the limiter of its own route (it is admitted exactly if it is among the
\* first `limit` of its route, key and window), and the counter a limiter
\* keeps for a key counts the calls of its own route only.
C19_LimitersIndependent ==
    /\ \A i \in 1..Len(log) : log[i].res = (Cardinality(SameRoute(i)) <= limit)
    /\ \A l \in Limiters :
          \A k \in DOMAIN visitors[l] :
              visitors[l][k].count
                = Cardinality({j \in 1..Len(log) : /\ log[j].ep = l
                                                   /\ log[j].key = k
                                                   /\ log[j].win = visitors[l][k].resetAt})

\* A key that has used up its limit on the login route is admitted on the
\* register route.
C19_Witness ==
    \E k \in Addrs :
        /\ k \in DOMAIN visitors["login"] /\ visitors["login"][k].count = limit
        /\ k \in DOMAIN visitors["register"] /\ visitors["register"][k].count = 1
        /\ log[Len(log)] = [ep |-> "register", lim |-> "register", key |-> k, t |-> 0,
                            t2 |-> 0, fresh |-> TRUE, win |-> window, res |-> TRUE]

(***************************************************************************)
(* Claims about the rejection kinds and the manifest's fields.             *)
(***************************************************************************)

\* The reason each rejection of validation carries.
ReasonOf(err) ==
    IF err = "ErrSymlinkDetected" THEN "symbolic links are not allowed"
    ELSE IF err = "ErrInvalidPackage" THEN "invalid skill package"
    ELSE IF err = "ErrNoManifest" THEN "manifest.json not found in package"
    ELSE err
\* Validation has returned for the request: with an error, or without one
\* (the error of a rename that failed afterwards is not its error).
ValidationRejected(r) == req[r].validated /\ req[r].err \notin {"", "rename file"}
ValidationPassed(r) == req[r].validated /\ req[r].err \in {"", "rename file"}

\* C15: Create answers an oversized upload with 413, every rejection of
\* validation with 400 and that rejection's own reason, and a flagged upload
\* with 400; no rejection of validation is answered as an internal error.
C15_Original ==
    \A r \in Reqs :
        req[r].pc = "done"
          => /\ req[r].err = "ErrFileTooLarge" => req[r].resp.status = 413
             /\ ValidationRejected(r) => req[r].resp = Resp(400, ReasonOf(req[r].err))
             /\ ScanNotClean(r) => req[r].resp.status = 400

\* The archive passes the checks of its entries, and the entry taken as the
\* manifest (the last named manifest.json at depth <= 2) has content c.
ManifestIs(es, c) ==
    /\ Offending(es) = {}
    /\ \E i \in 1..Len(es) :
          /\ Qualifies(es[i].name)
          /\ \A j \in (i + 1)..Len(es) : ~Qualifies(es[j].name)
          /\ es[i].content = c
\* errors.Is(err, kind), for the errors validation builds.
IsKind(err, kind) == err = kind

\* C16: every rejection of validation is of one of the stable kinds, and a
\* manifest whose bytes fail to decode is rejected with an error of kind
\* InvalidPackage.
C16_Original ==
    \A r \in Reqs :
        /\ ValidationRejected(r)
              => \E kind \in {"ErrSymlinkDetected", "ErrInvalidPackage", "ErrNoManifest"} :
                    IsKind(req[r].err, kind)
        /\ (req[r].validated /\ ManifestIs(EntriesOf(r), Garbage))
              => IsKind(req[r].err, "ErrInvalidPackage")

\* The fields a manifest document has a value for.
FieldsOf(c) == IF c.kind = "json" THEN c.fields ELSE {}

\* C17 as stated: a manifest that validation returns has a name, a slug and a
\* version, and an archive whose manifest lacks one of the three is rejected.
C17_Original ==
    \A r \in Reqs :
        /\ ValidationPassed(r)
              => req[r].manifest.Name # "" /\ req[r].manifest.Slug # ""
                    /\ req[r].manifest.Version # ""
        /\ \A c \in ManifestContents :
              (req[r].validated /\ ManifestIs(EntriesOf(r), c) /\ c.kind = "json"
                    /\ ~({"name", "slug", "version"} \subseteq FieldsOf(c)))
                => ValidationRejected(r) /\ NoPermanentFile(r)

\* C17, amended: a manifest that validation returns has a non-empty name and
\* slug; an archive whose manifest lacks the name or the slug is rejected
\* ("manifest must contain name and slug") and never stored as a permanent
\* file; the version is not enforced: a manifest with a name and a slug and
\* no version passes validation, with the empty version.
C17_NameAndSlugEnforced ==
    \A r \in Reqs :
        /\ ValidationPassed(r)
              => req[r].manifest.Name # "" /\ req[r].manifest.Slug # ""
        /\ \A c \in ManifestContents :
              (req[r].validated /\ ManifestIs(EntriesOf(r), c) /\ c.kind = "json")
                => IF {"name", "slug"} \subseteq FieldsOf(c)
                   THEN /\ ValidationPassed(r)
                        /\ req[r].manifest.Version # "" <=> "version" \in FieldsOf(c)
                   ELSE /\ req[r].err = "manifest must contain name and slug"
                        /\ NoPermanentFile(r)

\* An upload whose manifest has no version, accepted and stored, next to the
\* case of a manifest without a slug.
C17_Witness ==
    /\ Accepted(1)
    /\ ManifestIs(EntriesOf(1), Json({"name", "slug"}, "demo"))
    /\ Len(EntriesOf(1)) = 2
    /\ EntriesOf(1)[1].content = Json({"name", "version"}, "")
    /\ req[1].manifest.Version = ""
    /\ skills[Len(skills)].version = "" /\ skills[Len(skills)].file_path \in DOMAIN files

(***************************************************************************)
(* Claims about the artifacts and their rows.                              *)
(***************************************************************************)

\* The rows that reference path p.
RowsOf(p) == {i \in 1..Len(skills) : skills[i].file_path = p}

\* C18: whenever no upload is in flight, every file the pipeline has left in
\* the upload directory is referenced by exactly one row of skills; and no
\* two rows ever reference the same path.
C18_OneRowPerArtifact ==
    /\ (\A r \in Reqs : req[r].pc = "done")
          => \A p \in DOMAIN files : Cardinality(RowsOf(p)) = 1
    /\ \A i, j \in 1..Len(skills) :
          i # j => skills[i].file_path # skills[j].file_path

\* Two uploads of one slug that both reached the INSERT: one is stored with
\* its row, the other one answered 409.
C18_Witness ==
    /\ \A r \in Reqs : req[r].pc = "done"
    /\ \E r, q \in Reqs :
          /\ Accepted(r) /\ req[q].resp.status = 409
          /\ req[q].manifest.Slug = req[r].manifest.Slug
          /\ req[q].finalPath # NoPath /\ req[q].finalPath # req[r].finalPath
          /\ DOMAIN files = {req[r].filePath}
          /\ Cardinality(RowsOf(req[r].filePath)) = 1

(***************************************************************************)
(* Claims about the order of the stages.                                   *)
(***************************************************************************)

\* The position of a request in Create: the stages in their order.
StageRank(pc) ==
    CASE pc = "arrive" -> 0
      [] pc = "new" -> 1
      [] pc = "savefile" -> 2
      [] pc = "copy" -> 3
      [] pc = "validate" -> 4
      [] pc = "rename" -> 5
      [] pc = "return" -> 6
      [] pc = "scan" -> 7
      [] pc = "flagged" -> 8
      [] pc = "create" -> 9
      [] pc = "conflict" -> 10
      [] pc = "done" -> 11
\* The rows uploads have created.
UploadRows == {i \in (Len(SeedSkills) + 1)..Len(skills) : TRUE}
\* The scanner is, or has been, invoked only after a successful SaveFile, and
\* skillRepo.Create only after a clean scan.
StagesInOrder(r) ==
    /\ (req[r].pc = "scan" \/ req[r].scan.done)
          => /\ req[r].err = "" /\ req[r].validated
             /\ req[r].filePath = req[r].finalPath /\ req[r].filePath # NoPath
    /\ (req[r].pc \in {"create", "conflict"} \/ req[r].resp.status \in {201, 409})
          => req[r].scan.done /\ req[r].scan.clean /\ ~req[r].scan.err
    /\ req[r].err # "" => req[r].pc \in {"return", "done"}

\* C21: within one upload the stages run in their order, each at most once:
\* every step moves the request forward, the scanner is invoked only after
\* SaveFile has returned success, skillRepo.Create only after the scanner has
\* returned clean, and after a failure no stage runs again (at most one
\* temp file, one permanent name and one row per request).
C21_StagesSequential ==
    [][/\ \A r \in Reqs :
            /\ StagesInOrder(r)
            /\ req'[r] # req[r]
                  => /\ StageRank(req'[r].pc) > StageRank(req[r].pc)
                     /\ StagesInOrder(r)'
       /\ nextTmp' <= nextTmp + 1 /\ nextUuid' <= nextUuid + 1
       /\ Len(skills') <= Len(skills) + 1
       /\ nextTmp' <= NumReqs /\ nextUuid' <= NumReqs
       /\ Cardinality(UploadRows)' <= NumReqs]_vars

\* One upload went through every stage and another one stopped at the rename
\* that failed.
C21_Witness ==
    \E r, q \in Reqs :
        /\ Accepted(r) /\ req[r].scan.done
        /\ req[q].pc = "done" /\ req[q].err = "rename file" /\ ~req[q].scan.done
        /\ nextUuid = 2

(***************************************************************************)
(* Claims about uploads of a taken slug and about the file names.          *)
(***************************************************************************)

\* A row of another upload, or of the seed, has the slug of request r.
SlugHasRecord(r) ==
    \E i \in 1..Len(skills) :
        skills[i].slug = req[r].manifest.Slug /\ skills[i].file_path # req[r].filePath
\* The request was answered after a successful SaveFile and a clean scan.
AnsweredAfterCleanScan(r) ==
    req[r].pc = "done" /\ req[r].scan.done /\ req[r].scan.clean /\ ~req[r].scan.err

\* C25 as stated: a valid, clean upload whose slug already has a record leaves
\* its new file in the upload directory.
C25_Original ==
    \A r \in Reqs :
        (AnsweredAfterCleanScan(r) /\ SlugHasRecord(r))
            => req[r].filePath \in DOMAIN files

\* C25, amended: a valid, clean upload whose slug already has a record is
\* answered 409, its new file is deleted and no row is added or changed: the
\* upload directory never holds the files of two uploads of one slug once
\* both are answered, and the table never holds two rows of one slug.
C25_TakenSlugRejected ==
    /\ \A r \in Reqs :
          (AnsweredAfterCleanScan(r) /\ SlugHasRecord(r))
            => /\ req[r].resp = Resp(409, "skill with this slug already exists")
               /\ req[r].filePath \notin DOMAIN files
               /\ RowsOf(req[r].filePath) = {}
    /\ \A i, j \in 1..Len(skills) : i # j => skills[i].slug # skills[j].slug
    /\ \A r, q \in Reqs :
          (r # q /\ req[r].pc = "done" /\ req[q].pc = "done"
                /\ req[r].filePath \in DOMAIN files /\ req[q].filePath \in DOMAIN files)
            => req[r].manifest.Slug # req[q].manifest.Slug

\* A valid, clean upload of a slug the seed has a record for: it was stored
\* under a permanent name, and is answered 409 with its file gone.
C25_Witness ==
    \E r \in Reqs :
        /\ AnsweredAfterCleanScan(r) /\ req[r].manifest.Slug = "line-messenger"
        /\ req[r].resp.status = 409 /\ req[r].filePath \notin DOMAIN files
        /\ req[r].finalPath # NoPath /\ Len(skills) = Len(SeedSkills)

\* The paths request r has created and not yet given up.
OwnPaths(r) == {req[r].tmpPath, req[r].finalPath} \ {NoPath}

\* C26: concurrent SaveFile calls never share a path.  The temp and the
\* permanent names of different requests differ, also for uploads of the same
\* bytes; a permanent name is not the path of any file at the time of the
\* rename; and a step of one request never creates, changes or removes a
\* file under a path of another request.
C26_NoSharedPath ==
    [][/\ \A r, q \in Reqs : r # q => OwnPaths(r) \cap OwnPaths(q) = {}
       /\ \A r \in Reqs :
            /\ (req[r].pc = "rename" /\ req'[r].pc = "return")
                  => req'[r].finalPath \notin DOMAIN files
            /\ req'[r] = req[r]
                  => \A p \in OwnPaths(r) :
                        /\ (p \in DOMAIN files) = (p \in DOMAIN files')
                        /\ p \in DOMAIN files => files'[p] = files[p]]_vars

\* Two uploads of the same bytes, both stored, under different names.
C26_Witness ==
    \E r, q \in Reqs :
        /\ r # q /\ req[r].upload = req[q].upload
        /\ req[r].filePath \in DOMAIN files /\ req[q].filePath \in DOMAIN files
        /\ req[r].filePath # req[q].filePath
        /\ files[req[r].filePath] = files[req[q].filePath]

(***************************************************************************)
(* Claims about the selection of the manifest.                             *)
(***************************************************************************)

\* What validation answers for a manifest of content c: its error ("" for
\* none) and the manifest it returns.
OutcomeFor(c) ==
    IF c.kind = "unreadable" THEN [err |-> "open manifest", manifest |-> EmptyManifest]
    ELSE IF c.kind # "json" THEN [err |-> "parse manifest", manifest |-> EmptyManifest]
    ELSE IF ~({"name", "slug"} \subseteq c.fields)
    THEN [err |-> "manifest must contain name and slug", manifest |-> EmptyManifest]
    ELSE [err |-> "", manifest |-> [Name |-> "Demo", Slug |-> c.slug,
                                    Version |-> IF "version" \in c.fields
                                                THEN "1.0.0" ELSE ""]]
\* The last entry, in archive order, named manifest.json at depth <= 2.
LastQualifying(es) ==
    CHOOSE i \in 1..Len(es) :
        Qualifies(es[i].name) /\ \A j \in (i + 1)..Len(es) : ~Qualifies(es[j].name)

\* C28: for an archive whose entries pass the checks of symlinks and names,
\* validation parses the last entry, in archive order, whose base name is
\* manifest.json and whose depth is at most 2: its outcome is the outcome for
\* that entry's content, whatever earlier qualifying entries hold, and
\* manifest.json entries at depth 3 or more count as no manifest at all.
C28_LastQualifyingWins ==
    \A r \in Reqs :
        (req[r].validated /\ Offending(EntriesOf(r)) = {})
          => IF NoQualifyingEntry(EntriesOf(r))
             THEN req[r].err = "ErrNoManifest"
             ELSE LET o == OutcomeFor(EntriesOf(r)[LastQualifying(EntriesOf(r))].content)
                  IN  /\ IF o.err = "" THEN ValidationPassed(r) ELSE req[r].err = o.err
                      /\ req[r].manifest = o.manifest

\* Two qualifying entries with different documents, the later at depth 2 and
\* without a version: validation returned the later one's manifest.
C28_Witness ==
    /\ ValidationPassed(1)
    /\ Len(EntriesOf(1)) = 2
    /\ EntriesOf(1)[1] = Entry(<<"M">>, FALSE, Json({"name", "slug", "version"}, "demo"))
    /\ EntriesOf(1)[2] = Entry(<<"a", "/", "M">>, FALSE, Json({"name", "slug"}, "demo"))
    /\ req[1].manifest = [Name |-> "Demo", Slug |-> "demo", Version |-> ""]

(***************************************************************************)
(* Claims about the rate-limit key.                                        *)
(***************************************************************************)

\* The call has been counted by its limiter.
Counted(c) == call[c].pc \in {"applied", "done"}
\* The counted calls whose header, or without one whose remote address, is k.
CountedUnder(k) ==
    {c \in Calls : /\ Counted(c)
                   /\ \/ call[c].fwd # "" /\ call[c].fwd = k
                      \/ call[c].fwd = "" /\ call[c].remote = k}
\* The key is the header where there is one and the remote address otherwise,
\* and every window counts exactly the requests of its key.
KeyIsHeaderOrRemote ==
    /\ \A c \in Calls :
          call[c].pc # "idle"
            => call[c].key = IF call[c].fwd # "" THEN call[c].fwd ELSE call[c].remote
    /\ \A k \in Addrs :
          IF CountedUnder(k) = {}
          THEN k \notin DOMAIN visitors["login"]
          ELSE /\ k \in DOMAIN visitors["login"]
               /\ visitors["login"][k].count = Cardinality(CountedUnder(k))
    /\ DOMAIN visitors["login"] \subseteq Addrs

\* C27 as stated: the key is the X-Forwarded-For value when non-empty and the
\* RemoteAddr otherwise; requests with the same header value share a window
\* whatever their remote addresses, and requests from one remote address with
\* different header values are counted in different windows.
C27_Original ==
    /\ KeyIsHeaderOrRemote
    /\ \A c, d \in Calls :
          (Counted(c) /\ Counted(d))
            => /\ (call[c].fwd # "" /\ call[c].fwd = call[d].fwd)
                    => call[c].key = call[d].key
               /\ (call[c].remote = call[d].remote /\ call[c].fwd # call[d].fwd)
                    => call[c].key # call[d].key

\* C27, amended: the key is the X-Forwarded-For value when non-empty and the
\* RemoteAddr otherwise; requests with the same non-empty header value share
\* a window whatever their remote addresses, and requests with different
\* non-empty header values are counted in different windows; a request
\* without the header shares the window of every request whose header value
\* is its remote address, also of one from that same address.
C27_KeyIsHeaderOrRemote ==
    /\ KeyIsHeaderOrRemote
    /\ \A c, d \in Calls :
          (Counted(c) /\ Counted(d))
            => /\ (call[c].fwd # "" /\ call[c].fwd = call[d].fwd)
                    => call[c].key = call[d].key
               /\ (call[c].fwd # "" /\ call[d].fwd # "" /\ call[c].fwd # call[d].fwd)
                    => call[c].key # call[d].key
               /\ (call[c].fwd = "" /\ call[d].fwd = call[c].remote)
                    => call[c].key = call[d].key

\* Requests from two remote addresses with one header value, counted in one
\* window, and a request without the header from the address that value
\* names, counted in the same window.
C27_Witness ==
    \E c, d, e \in Calls :
        /\ Counted(c) /\ Counted(d) /\ Counted(e)
        /\ call[c].remote # call[d].remote
        /\ call[c].fwd # "" /\ call[c].fwd = call[d].fwd
        /\ call[e].fwd = "" /\ call[e].remote = call[c].fwd
        /\ visitors["login"][call[c].fwd].count = 3
        /\ DOMAIN visitors["login"] = {call[c].fwd}

(***************************************************************************)
(* Claims about the sweep as seen by the callers.                          *)
(***************************************************************************)

\* A limiter that never sweeps, fed the calls of the log with the clock
\* readings they made: its map after the first n calls.
RECURSIVE NeverSwept(_)
\* Whether, with map m, it takes the call of log entry e for a fresh window,
\* and the window the call leaves.
FreshUnswept(m, e) == e.key \notin DOMAIN m \/ e.t > m[e.key].resetAt
VisitorUnswept(m, e) ==
    IF FreshUnswept(m, e) THEN Visitor(1, e.t2 + window)
    ELSE Visitor(m[e.key].count + 1, m[e.key].resetAt)
NeverSwept(n) ==
    IF n = 0 THEN <<>>
    ELSE LET m == NeverSwept(n - 1)
         IN  MapPut(m, log[n].key, VisitorUnswept(m, log[n]))
\* The result it returns for that call.
ResultUnswept(m, e) == FreshUnswept(m, e) \/ VisitorUnswept(m, e).count <= limit

\* C29: whatever sweep passes run between the allow calls, every call opens a
\* fresh window exactly when it would in a limiter that never sweeps, and
\* returns the result that limiter returns.
C29_SweepInvisible ==
    \A n \in 1..Len(log) :
        LET m == NeverSwept(n - 1)
        IN  /\ log[n].fresh = FreshUnswept(m, log[n])
            /\ log[n].res = ResultUnswept(m, log[n])

\* A sweep pass has removed the window of a key (the limiter that never
\* sweeps still holds it), and the next call for that key, which finds no
\* window, has decided for a fresh one, as it would on finding the window.
C29_Witness ==
    \E c \in Calls :
        /\ call[c].pc = "checked" /\ call[c].fresh
        /\ sweeper["login"].pc = "sleep"
        /\ call[c].key \notin DOMAIN visitors["login"]
        /\ LET m == NeverSwept(Len(log))
           IN  /\ call[c].key \in DOMAIN m
               /\ call[c].t > m[call[c].key].resetAt
               /\ m[call[c].key].count > limit

(***************************************************************************)
(* Claims about the windows in the map.                                    *)
(***************************************************************************)

\* The logged calls for key k, and the last of them that installed a window.
CallsFor(k) == {n \in 1..Len(log) : log[n].lim = "login" /\ log[n].key = k}
Installs(k) == {n \in CallsFor(k) : log[n].fresh}
LastInstall(k) == CHOOSE n \in Installs(k) : \A j \in Installs(k) : j <= n
\* Every window of the map has been installed by a call, ends one window
\* duration after the time of its installation, and counts that call and the
\* calls for its key since.
WindowsWellFormed ==
    \A k \in DOMAIN visitors["login"] :
        /\ visitors["login"][k].count >= 1
        /\ Installs(k) # {}
        /\ visitors["login"][k].resetAt = log[LastInstall(k)].t2 + window
        /\ visitors["login"][k].count
              = Cardinality({n \in CallsFor(k) : n >= LastInstall(k)})
\* An allow call takes effect inside an existing window: it adds 1 to the
\* count of its key, admitted or denied, and changes neither the reset time
\* of that window nor the window of any other key.
CountsInsideWindow ==
    (Len(log') = Len(log) + 1 /\ ~log'[Len(log')].fresh)
      => LET k == log'[Len(log')].key
         IN  /\ k \in DOMAIN visitors["login"]
             /\ DOMAIN visitors'["login"] = DOMAIN visitors["login"]
             /\ visitors'["login"][k].count = visitors["login"][k].count + 1
             /\ visitors'["login"][k].resetAt = visitors["login"][k].resetAt
             /\ \A x \in DOMAIN visitors["login"] \ {k} :
                    visitors'["login"][x] = visitors["login"][x]

\* C30: in every reachable state each window of the map has count >= 1 and a
\* reset time equal to its installation time plus the window duration, and an
\* allow call that lands inside an existing window only adds 1 to the count
\* of its key, also when it is denied: no window is prolonged.  (The map is
\* empty initially, so the state after each step covers every state.)
C30_WindowsWellFormed ==
    [][WindowsWellFormed' /\ CountsInsideWindow]_vars

\* A call denied inside a window that was installed at an earlier clock
\* reading: the count has passed the limit and the reset time is still the
\* installation time plus the window duration.
C30_Witness ==
    /\ log # <<>>
    /\ LET e == log[Len(log)]
       IN  /\ ~e.fresh /\ ~e.res
           /\ e.key \in DOMAIN visitors["login"]
           /\ e.t > log[LastInstall(e.key)].t2
           /\ visitors["login"][e.key] = Visitor(limit + 1, log[LastInstall(e.key)].t2 + window)

(***************************************************************************)
(* Claims about the progress of the sweep.                                 *)
(***************************************************************************)

\* The window of key k is in the map and its reset time has passed.
Expired(k) ==
    k \in DOMAIN visitors["login"] /\ now > visitors["login"][k].resetAt
\* A sweep pass is still to come to key k within the time the clock covers:
\* the cleanup goroutine sleeps until a time the clock reaches, or its range
\* loop has k yet to visit.
SweepAhead(k) ==
    \/ sweeper["login"].pc = "sleep" /\ sweeper["login"].wake <= MaxTime
    \/ sweeper["login"].pc = "sweep" /\ k \in sweeper["login"].todo

\* C24: under fair scheduling, a window that has expired, with a sweep pass
\* still ahead of it, is eventually removed from the map unless a further
\* request for its key replaces it first.
C24_ExpiredEventuallyRemoved ==
    \A k \in Addrs :
        (Expired(k) /\ SweepAhead(k)) ~> ~Expired(k)

\* An expired window that no call will touch any more (every call has
\* returned), waiting for the next sweep pass.
C24_Witness ==
    \E k \in Addrs :
        /\ Expired(k)
        /\ sweeper["login"].pc = "sleep" /\ sweeper["login"].wake <= MaxTime
        /\ now < sweeper["login"].wake
        /\ \A c \in Calls : call[c].pc = "done"

(***************************************************************************)
(* Claims about registration.                                              *)
(***************************************************************************)

\* No two rows of the users table share an email or a username.
UsersUnique ==
    \A i, j \in 1..Len(users) :
        i # j => users[i].email # users[j].email /\ users[i].username # users[j].username
\* The service has returned for the request.
RegisterReturned(n) == reg[n].pc = "done" /\ reg[n].resp.status # 400
\* A user other than one the request has created holds its email or username.
TakenFor(n) ==
    \E i \in 1..Len(users) :
        /\ users[i].id # reg[n].user
        /\ users[i].email = reg[n].email \/ users[i].username = reg[n].username

\* C22: no two users share an email or a username, and every Register call
\* whose email or username is taken, before the call or by a concurrent call,
\* fails with ErrUserExists, is answered 409 "user already exists" and
\* creates no user.
C22_Original ==
    /\ UsersUnique
    /\ \A n \in Regs :
          (RegisterReturned(n) /\ TakenFor(n))
            => /\ IsUserExists(reg[n].err)
               /\ reg[n].resp = Resp(409, "user already exists")
               /\ reg[n].user = 0

(***************************************************************************)
(* Claims about reviews.                                                   *)
(***************************************************************************)

\* No two rows of the reviews table are of one skill and one user.
ReviewsUnique ==
    \A i, j \in 1..Len(reviews) :
        i # j => reviews[i].skill_id # reviews[j].skill_id
                    \/ reviews[i].user_id # reviews[j].user_id
\* The rows the table has are kept as they are.
ReviewsKept ==
    Len(reviews') >= Len(reviews) /\ \A i \in 1..Len(reviews) : reviews'[i] = reviews[i]
\* The request is answered in this step, for a skill that its user has a
\* review of already.
AnswersDuplicate(r) ==
    /\ rev[r].pc # "done" /\ rev'[r].pc = "done"
    /\ rev[r].user # 0 /\ rev[r].skill # 0
    /\ ReviewTaken(rev[r].skill, rev[r].user)

\* C23 as stated: each (skill, user) pair has at most one review row, and a
\* create request by a user who has reviewed the skill already is answered
\* 409 "you have already reviewed this skill" and leaves the review unchanged.
C23_Original ==
    [][/\ ReviewsUnique'
       /\ ReviewsKept
       /\ \A r \in Revs :
             AnswersDuplicate(r)
               => /\ rev'[r].resp = Resp(409, "you have already reviewed this skill")
                  /\ reviews' = reviews]_vars

\* C23, amended: each (skill, user) pair has at most one review row; a create
\* request by a user who has reviewed the skill already leaves the table
\* unchanged, and is answered 409 "you have already reviewed this skill" if
\* its body decodes with a rating from 1 to 5, and 400 otherwise.
C23_OneReviewPerUser ==
    [][/\ ReviewsUnique'
       /\ ReviewsKept
       /\ \A r \in Revs :
             AnswersDuplicate(r)
               => /\ rev'[r].resp =
                        IF ~rev[r].decodes THEN Resp(400, "invalid request body")
                        ELSE IF rev[r].rating \notin 1..5
                        THEN Resp(400, "rating must be between 1 and 5")
                        ELSE Resp(409, "you have already reviewed this skill")
                  /\ reviews' = reviews]_vars

\* Two requests of one user for one skill with different ratings: the first
\* has added its row, the second is answered 409 and the row has kept its
\* rating; the seeded review is as it was.
C23_Witness ==
    /\ rev[1].pc = "done" /\ rev[2].pc = "done"
    /\ rev[1].user = 2 /\ rev[2].user = 2
    /\ rev[1].rating = 3 /\ rev[2].rating = 5
    /\ rev[1].resp.status = 201
    /\ rev[2].resp = Resp(409, "you have already reviewed this skill")
    /\ reviews = <<ReviewRow(1, 1, 1, 4), ReviewRow(2, 1, 2, 3)>>

====
